---- MODULE Spec2Model ----
(***************************************************************************)
(* Model of lib/client.js, the Freshdesk APIv2 client: the facade methods  *)
(* of Freshdesk.prototype, makeRequest, the response handler built by      *)
(* createResponseHandler, and the FreshdeskError constructor.              *)
(*                                                                         *)
(* Text that travels on the wire (raw bodies, JSON, messages) is a         *)
(* sequence of one-character strings, so that JSON.parse and               *)
(* JSON.stringify are computed character by character.  URLs and the       *)
(* credential are TLA+ strings built by concatenation.                     *)
(***************************************************************************)
EXTENDS Integers, Sequences, FiniteSets, TLC

(***************************************************************************)
(* JavaScript values.  Every value is a record of the same shape:          *)
(*   t    the type tag                                                     *)
(*   n    the number, the boolean (0/1) or the identity of a function      *)
(*   s    the characters of a string (or the code of a transport error)    *)
(*   kids the properties of an object / the elements of an array, in       *)
(*        order, each [k |-> key characters, v |-> value]                  *)
(***************************************************************************)
JsVal(t, n, s, kids) == [t |-> t, n |-> n, s |-> s, kids |-> kids]

JsUndefined == JsVal("undefined", 0, <<>>, <<>>)

JsNull == JsVal("null", 0, <<>>, <<>>)

JsBool(b) == JsVal("boolean", IF b THEN 1 ELSE 0, <<>>, <<>>)

JsNumber(n) == JsVal("number", n, <<>>, <<>>)

JsString(chars) == JsVal("string", 0, chars, <<>>)

JsArray(elems) == JsVal("array", 0, <<>>, [i \in 1..Len(elems) |-> [k |-> <<>>, v |-> elems[i]]])

JsObject(props) == JsVal("object", 0, <<>>, props)

\* a function value; id names the caller's callback it is
JsFunction(id) == JsVal("function", id, <<>>, <<>>)

\* the error object the transport reports (e.g. code ECONNREFUSED)
JsTransportError(code) == JsVal("error", 0, code, <<>>)

Prop(k, v) == [k |-> k, v |-> v]

\* ToBoolean, as `if (data)` and `message || ...` apply it
Truthy(v) ==
    CASE v.t = "undefined" -> FALSE
      [] v.t = "null" -> FALSE
      [] v.t = "boolean" -> v.n = 1
      [] v.t = "number" -> v.n # 0
      [] v.t = "string" -> Len(v.s) > 0
      [] OTHER -> TRUE

HasProp(props, k) == \E i \in 1..Len(props) : props[i].k = k

\* obj[k] = v on an ordered property list: an existing key keeps its place
SetProp(props, k, v) ==
    IF HasProp(props, k)
    THEN [i \in 1..Len(props) |-> IF props[i].k = k THEN Prop(k, v) ELSE props[i]]
    ELSE Append(props, Prop(k, v))

\* the property read v.k of a value that is neither null nor undefined:
\* primitives, arrays and functions have no such own property
GetProp(v, k) ==
    IF v.t \in {"object", "FreshdeskError"} /\ HasProp(v.kids, k)
    THEN v.kids[CHOOSE i \in 1..Len(v.kids) : v.kids[i].k = k].v
    ELSE JsUndefined

(***************************************************************************)
(* JSON.parse on a character sequence.  The grammar covered: white space   *)
(* (blank), null, true, false, integers, strings without escapes, arrays   *)
(* and objects.  A parse returns [ok, v, i]: whether it succeeded, the     *)
(* value, and the position after it.                                       *)
(***************************************************************************)
DigitChars == <<"0", "1", "2", "3", "4", "5", "6", "7", "8", "9">>

IsDigit(c) == \E d \in 1..10 : DigitChars[d] = c

DigitValue(c) == (CHOOSE d \in 1..10 : DigitChars[d] = c) - 1

ParseFail == [ok |-> FALSE, v |-> JsUndefined, i |-> 0]

ParseOk(v, i) == [ok |-> TRUE, v |-> v, i |-> i]

RECURSIVE SkipWs(_, _)
SkipWs(t, i) == IF i <= Len(t) /\ t[i] = " " THEN SkipWs(t, i + 1) ELSE i

\* does the text carry the word w at position i
HasWord(t, i, w) ==
    /\ i + Len(w) - 1 <= Len(t)
    /\ \A j \in 1..Len(w) : t[i + j - 1] = w[j]

RECURSIVE ParseDigits(_, _, _)
ParseDigits(t, i, acc) ==
    IF i <= Len(t) /\ IsDigit(t[i])
    THEN ParseDigits(t, i + 1, acc * 10 + DigitValue(t[i]))
    ELSE [n |-> acc, i |-> i]

\* the number after its digits d; a fraction or an exponent is outside the grammar
NumberEnd(t, neg, d) ==
    IF d.i <= Len(t) /\ t[d.i] \in {".", "e", "E"} THEN ParseFail
    ELSE ParseOk(JsNumber(IF neg THEN 0 - d.n ELSE d.n), d.i)

\* -? (0 | [1-9][0-9]*), its first digit expected at j
NumberAt(t, neg, j) ==
    IF j > Len(t) \/ ~IsDigit(t[j]) THEN ParseFail
    ELSE IF t[j] = "0" /\ j + 1 <= Len(t) /\ IsDigit(t[j + 1]) THEN ParseFail
    ELSE NumberEnd(t, neg, ParseDigits(t, j, 0))

ParseNumber(t, i) == IF t[i] = "-" THEN NumberAt(t, TRUE, i + 1) ELSE NumberAt(t, FALSE, i)

RECURSIVE ParseChars(_, _, _)
\* the characters of a string up to its closing quote; i is after the opening one
ParseChars(t, i, acc) ==
    IF i > Len(t) THEN ParseFail
    ELSE IF t[i] = "\"" THEN ParseOk(JsString(acc), i + 1)
    ELSE IF t[i] = "\\" THEN ParseFail
    ELSE ParseChars(t, i + 1, Append(acc, t[i]))

RECURSIVE ParseValue(_, _)
RECURSIVE Elements(_, _, _)
RECURSIVE ElementsNext(_, _, _)
RECURSIVE MemberKey(_, _, _)
RECURSIVE MembersNext(_, _, _)

\* e is the parse of an element, acc the elements before it
Elements(t, acc, e) ==
    IF e.ok THEN ElementsNext(t, Append(acc, e.v), SkipWs(t, e.i)) ELSE ParseFail

\* after an element: "," element, or "]"
ElementsNext(t, acc, j) ==
    IF j > Len(t) THEN ParseFail
    ELSE IF t[j] = "]" THEN ParseOk(JsArray(acc), j + 1)
    ELSE IF t[j] = "," THEN Elements(t, acc, ParseValue(t, j + 1))
    ELSE ParseFail

\* after "[": "]", or the first element
ArrayAt(t, j) ==
    IF j <= Len(t) /\ t[j] = "]" THEN ParseOk(JsArray(<<>>), j + 1)
    ELSE Elements(t, <<>>, ParseValue(t, j))

\* val is the parse of the value of the member with key k, acc the members before it
MemberEnd(t, acc, k, val) ==
    IF val.ok THEN MembersNext(t, SetProp(acc, k, val.v), SkipWs(t, val.i)) ELSE ParseFail

\* after a key: ":" value
MemberValue(t, acc, k, c) ==
    IF c > Len(t) \/ t[c] # ":" THEN ParseFail
    ELSE MemberEnd(t, acc, k, ParseValue(t, c + 1))

\* key is the parse of a member's key
MemberColon(t, acc, key) ==
    IF key.ok THEN MemberValue(t, acc, key.v.s, SkipWs(t, key.i)) ELSE ParseFail

\* a member "key" : value is expected at j
MemberKey(t, acc, j) ==
    IF j > Len(t) \/ t[j] # "\"" THEN ParseFail
    ELSE MemberColon(t, acc, ParseChars(t, j + 1, <<>>))

\* after a member: "," member, or "}"
MembersNext(t, acc, j) ==
    IF j > Len(t) THEN ParseFail
    ELSE IF t[j] = "}" THEN ParseOk(JsObject(acc), j + 1)
    ELSE IF t[j] = "," THEN MemberKey(t, acc, SkipWs(t, j + 1))
    ELSE ParseFail

\* after "{": "}", or the first member
ObjectAt(t, j) ==
    IF j <= Len(t) /\ t[j] = "}" THEN ParseOk(JsObject(<<>>), j + 1)
    ELSE MemberKey(t, <<>>, j)

\* a value starts at j
ValueAt(t, j) ==
    IF j > Len(t) THEN ParseFail
    ELSE IF HasWord(t, j, <<"n", "u", "l", "l">>) THEN ParseOk(JsNull, j + 4)
    ELSE IF HasWord(t, j, <<"t", "r", "u", "e">>) THEN ParseOk(JsBool(TRUE), j + 4)
    ELSE IF HasWord(t, j, <<"f", "a", "l", "s", "e">>) THEN ParseOk(JsBool(FALSE), j + 5)
    ELSE IF t[j] = "\"" THEN ParseChars(t, j + 1, <<>>)
    ELSE IF t[j] = "[" THEN ArrayAt(t, SkipWs(t, j + 1))
    ELSE IF t[j] = "{" THEN ObjectAt(t, SkipWs(t, j + 1))
    ELSE IF t[j] = "-" \/ IsDigit(t[j]) THEN ParseNumber(t, j)
    ELSE ParseFail

ParseValue(t, i) == ValueAt(t, SkipWs(t, i))

\* r is the parse of a value: the text must hold nothing but white space after it
WholeText(text, r) ==
    IF r.ok /\ SkipWs(text, r.i) > Len(text) THEN [ok |-> TRUE, v |-> r.v]
    ELSE [ok |-> FALSE, v |-> JsUndefined]

\* the parse of a whole text
ParseText(text) == WholeText(text, ParseValue(text, 1))

(***************************************************************************)
(* JSON.stringify.  The result is a JavaScript value: a string, or         *)
(* undefined for undefined and for a function.                             *)
(***************************************************************************)
RECURSIVE NatChars(_)
NatChars(n) == IF n < 10 THEN <<DigitChars[n + 1]>> ELSE NatChars(n \div 10) \o <<DigitChars[(n % 10) + 1]>>

NumberChars(n) == IF n < 0 THEN <<"-">> \o NatChars(0 - n) ELSE NatChars(n)

RECURSIVE QuoteChars(_)
QuoteChars(s) ==
    IF s = <<>> THEN <<>>
    ELSE (IF Head(s) \in {"\"", "\\"} THEN <<"\\", Head(s)>> ELSE <<Head(s)>>) \o QuoteChars(Tail(s))

Quoted(s) == <<"\"">> \o QuoteChars(s) \o <<"\"">>

Serializable(v) == v.t \notin {"undefined", "function"}

RECURSIVE Serialize(_)
RECURSIVE SerializeElements(_, _)
RECURSIVE SerializeMembers(_, _)

\* array elements: undefined and functions are written as null
SerializeElements(kids, first) ==
    IF kids = <<>> THEN <<>>
    ELSE (IF first THEN <<>> ELSE <<",">>)
         \o (IF Serializable(Head(kids).v) THEN Serialize(Head(kids).v) ELSE <<"n", "u", "l", "l">>)
         \o SerializeElements(Tail(kids), FALSE)

\* object members: those whose value is undefined or a function are skipped
SerializeMembers(kids, first) ==
    IF kids = <<>> THEN <<>>
    ELSE IF ~Serializable(Head(kids).v) THEN SerializeMembers(Tail(kids), first)
    ELSE (IF first THEN <<>> ELSE <<",">>)
         \o Quoted(Head(kids).k) \o <<":">> \o Serialize(Head(kids).v)
         \o SerializeMembers(Tail(kids), FALSE)

Serialize(v) ==
    CASE v.t = "null" -> <<"n", "u", "l", "l">>
      [] v.t = "boolean" -> IF v.n = 1 THEN <<"t", "r", "u", "e">> ELSE <<"f", "a", "l", "s", "e">>
      [] v.t = "number" -> NumberChars(v.n)
      [] v.t = "string" -> Quoted(v.s)
      [] v.t = "array" -> <<"[">> \o SerializeElements(v.kids, TRUE) \o <<"]">>
      [] OTHER -> <<"{">> \o SerializeMembers(v.kids, TRUE) \o <<"}">>

JSONstringify(v) == IF Serializable(v) THEN JsString(Serialize(v)) ELSE JsUndefined

(***************************************************************************)
(* new Buffer(text).toString('base64'): text is a sequence of character    *)
(* codes below 128, so its UTF-8 bytes are the codes themselves.           *)
(***************************************************************************)
Base64Alphabet ==
    << "A", "B", "C", "D", "E", "F", "G", "H", "I", "J", "K", "L", "M", "N", "O", "P",
       "Q", "R", "S", "T", "U", "V", "W", "X", "Y", "Z", "a", "b", "c", "d", "e", "f",
       "g", "h", "i", "j", "k", "l", "m", "n", "o", "p", "q", "r", "s", "t", "u", "v",
       "w", "x", "y", "z", "0", "1", "2", "3", "4", "5", "6", "7", "8", "9", "+", "/" >>

B64(n) == Base64Alphabet[n + 1]

RECURSIVE Base64(_)
Base64(bytes) ==
    IF Len(bytes) = 0 THEN ""
    ELSE IF Len(bytes) = 1 THEN
        B64(bytes[1] \div 4) \o B64((bytes[1] % 4) * 16) \o "=="
    ELSE IF Len(bytes) = 2 THEN
        B64(bytes[1] \div 4) \o B64((bytes[1] % 4) * 16 + bytes[2] \div 16)
            \o B64((bytes[2] % 16) * 4) \o "="
    ELSE B64(bytes[1] \div 4) \o B64((bytes[1] % 4) * 16 + bytes[2] \div 16)
            \o B64((bytes[2] % 16) * 4 + bytes[3] \div 64) \o B64(bytes[3] % 64)
            \o Base64(SubSeq(bytes, 4, Len(bytes)))

\* the character codes of ":X"
ColonX == <<58, 88>>

(***************************************************************************)
(* The client.                                                             *)
(***************************************************************************)
VARIABLES
    apiKey,     \* the constructor's apiKey argument, as character codes
    baseUrl,    \* this.baseUrl
    _auth,      \* this._auth
    issued,     \* how many facade calls were made; call i's callback is function i
    invoked,    \* per call: the facade call being served, until it completes
    pending,    \* per call: the request the transport holds, until it completes
    finished,   \* per call: how its response handler ran, once it has
    delivered,  \* per callback: the (error, data) pairs it was called with
    alive       \* the process runs: no exception has ended it

vars == <<apiKey, baseUrl, _auth, issued, invoked, pending, finished, delivered, alive>>

\* how many facade calls one run makes
MaxCalls == 2

\* the inputs a caller and the remote service draw from
\* "k", "k1" and "abc"
ApiKeys == {<<107>>, <<107, 49>>, <<97, 98, 99>>}

BaseUrls == {"https://demo.freshdesk.com"}

AcmeData == JsObject(<<Prop(<<"n", "a", "m", "e">>, JsString(<<"A", "c", "m", "e">>))>>)

CompanyFilter == JsObject(<<Prop(<<"c", "o", "m", "p", "a", "n", "y", "_", "i", "d">>, JsString(<<"7">>))>>)

DescriptionBody == <<"{", "\"", "d", "e", "s", "c", "r", "i", "p", "t", "i", "o", "n", "\"", ":", "\"", "N", "a", "m", "e", " ", "h", "a", "s", " ", "a", "l", "r", "e", "a", "d", "y", " ", "b", "e", "e", "n", " ", "t", "a", "k", "e", "n", "\"", "}">>

\* the outcomes of the transport: a refused connection, an HTTP response
ErrRefused == [error |-> JsTransportError(<<"E", "C", "O", "N", "N", "R", "E", "F", "U", "S", "E", "D">>), hasResponse |-> FALSE,
               statusCode |-> 0, body |-> <<>>]

HttpResponse(status, body) == [error |-> JsNull, hasResponse |-> TRUE,
                               statusCode |-> status, body |-> body]

Statuses == {200, 201, 204, 400, 409, 500}

Bodies ==
    { <<>>, <<"n", "o", "t", " ", "j", "s", "o", "n">>, <<"{">>, <<"n", "u", "l", "l">>, <<"0">>, <<"4", "2">>, <<"\"", "o", "k", "\"">>, <<"[", "]">>, <<"{", "}">>,
      <<" ", "{", "\"", "i", "d", "\"", ":", " ", "4", "2", "}", " ">>, <<"{", "\"", "d", "e", "s", "c", "r", "i", "p", "t", "i", "o", "n", "\"", ":", "\"", "\"", "}">>, <<"{", "\"", "d", "e", "s", "c", "r", "i", "p", "t", "i", "o", "n", "\"", ":", "n", "u", "l", "l", "}">>,
      <<"{", "\"", "i", "d", "\"", ":", "4", "2", ",", "\"", "d", "e", "s", "c", "r", "i", "p", "t", "i", "o", "n", "\"", ":", "\"", "g", "o", "n", "e", "\"", "}">>, DescriptionBody }

\* JSON.parse(text): [ok |-> FALSE] stands for the SyntaxError it throws.
\* The parses of the bodies the transport can answer with are computed once.
ParsedBodies == [b \in Bodies |-> ParseText(b)]

JSONparse(text) == IF text \in Bodies THEN ParsedBodies[text] ELSE ParseText(text)

Narrow ==
    [ ids |-> {42},
      filters |-> {JsNull, CompanyFilter},
      payloads |-> {AcmeData},
      outcomes |-> { ErrRefused, HttpResponse(200, <<" ", "{", "\"", "i", "d", "\"", ":", " ", "4", "2", "}", " ">>), HttpResponse(204, <<>>),
                     HttpResponse(409, DescriptionBody), HttpResponse(500, <<"n", "o", "t", " ", "j", "s", "o", "n">>) } ]

Wide ==
    [ ids |-> {7, 42},
      filters |-> {JsNull, CompanyFilter},
      payloads |-> { AcmeData, JsObject(<<>>), JsNull, JsUndefined, JsNumber(0), JsBool(FALSE),
                     JsString(<<>>), JsString(<<"h", "i">>), JsNumber(5) },
      outcomes |-> {ErrRefused} \cup {HttpResponse(st, b) : st \in Statuses, b \in Bodies} ]

\* the facade call a caller made: the method, its id argument (0: none), its
\* filter or payload argument (undefined: none) and the number of arguments;
\* data is what the method passes to makeRequest as data
FacadeCall(op, id, arg, argc) == [op |-> op, id |-> id, arg |-> arg, argc |-> argc, data |-> JsUndefined]

Returned == FacadeCall("", 0, JsUndefined, 0)

NoRequest == [method |-> "", headers |-> [ContentType |-> "", Authorization |-> ""],
              url |-> "", qs |-> JsUndefined, bodySet |-> FALSE, body |-> JsUndefined]

Consumed == [options |-> NoRequest, handler |-> [cb |-> JsUndefined]]

NotFinished == [done |-> FALSE, outcome |-> ErrRefused, cb |-> JsUndefined, called |-> FALSE,
                thrown |-> "", parses |-> 0, traces |-> 0, exit |-> 0]

\* new Freshdesk(baseUrl, apiKey)
Freshdesk(url, key) ==
    /\ baseUrl = url
    /\ _auth = "Basic " \o Base64(key \o ColonX)

Init ==
    /\ apiKey \in ApiKeys
    /\ \E url \in BaseUrls : Freshdesk(url, apiKey)
    /\ issued = 0
    /\ invoked = <<>>
    /\ pending = <<>>
    /\ finished = <<>>
    /\ delivered = <<>>
    /\ alive = TRUE

\* function FreshdeskError(message, data)
DefaultMessage == <<"E", "r", "r", "o", "r", " ", "i", "n", " ", "F", "r", "e", "s", "h", "d", "e", "s", "k", "'", "s", " ", "c", "l", "i", "e", "n", "t", " ", "A", "P", "I">>

NotJsonMessage == <<"N", "o", "t", " ", "a", " ", "J", "S", "O", "N", " ", "r", "e", "s", "p", "o", "n", "s", "e", " ", "f", "r", "o", "m", " ", "A", "P", "I">>

FreshdeskError(message, data) ==
    JsVal("FreshdeskError", 0, <<>>,
          << Prop(<<"n", "a", "m", "e">>, JsString(<<"F", "r", "e", "s", "h", "d", "e", "s", "k", "E", "r", "r", "o", "r">>)),
             Prop(<<"m", "e", "s", "s", "a", "g", "e">>, IF Truthy(message) THEN message ELSE JsString(DefaultMessage)),
             Prop(<<"d", "a", "t", "a">>, data) >>)

\* the call cb(err, data) at source line `exit`: a cb that is no function
\* makes the call throw a TypeError
CallCb(cb, err, data, parses, traces, exit) ==
    IF cb.t = "function"
    THEN [called |-> TRUE, err |-> err, data |-> data, thrown |-> "",
          parses |-> parses, traces |-> traces, exit |-> exit]
    ELSE [called |-> FALSE, err |-> JsUndefined, data |-> JsUndefined, thrown |-> "TypeError",
          parses |-> parses, traces |-> traces, exit |-> exit]

\* the handler ends by an exception thrown at source line `exit`
Throw(kind, parses, traces, exit) ==
    [called |-> FALSE, err |-> JsUndefined, data |-> JsUndefined, thrown |-> kind,
     parses |-> parses, traces |-> traces, exit |-> exit]

\* the `if (error)` branch: the trace line reads response.request.path
OnError(cb, o) ==
    IF ~o.hasResponse THEN Throw("TypeError", 0, 0, 15)
    ELSE CallCb(cb, o.error, JsUndefined, 0, 1, 16)

\* OnSuccess, were the body handed over as received instead of parsed
OnSuccessRawBody(cb, o, p) ==
    IF ~p.ok THEN CallCb(cb, FreshdeskError(JsString(NotJsonMessage), JsNull), JsUndefined, 1, 1, 32)
    ELSE CallCb(cb, JsNull, JsString(o.body), 1, 0, 34)

\* case 200, case 201, p being what JSON.parse(body) gave
OnSuccess(cb, o, p) ==
    IF ~p.ok THEN CallCb(cb, FreshdeskError(JsString(NotJsonMessage), JsNull), JsUndefined, 1, 1, 32)
    ELSE CallCb(cb, JsNull, p.v, 1, 0, 34)

\* OnNoContent, were case 204 to fall through to the parsing of case 200
OnNoContentParsed(cb, o) == OnSuccess(cb, o, JSONparse(o.body))

\* case 204
OnNoContent(cb, o) == CallCb(cb, JsNull, JsNull, 0, 0, 39)

\* OnOtherStatus, were a body that is no JSON handed over "as is"
OnOtherStatusAsIs(cb, o, p) ==
    IF ~p.ok THEN CallCb(cb, FreshdeskError(JsString(NotJsonMessage), JsString(o.body)), JsUndefined, 1, 1, 51)
    ELSE IF p.v.t = "null" THEN Throw("TypeError", 1, 1, 55)
    ELSE CallCb(cb, FreshdeskError(GetProp(p.v, <<"d", "e", "s", "c", "r", "i", "p", "t", "i", "o", "n">>), p.v), JsUndefined, 1, 1, 55)

\* case 409, default, p being what JSON.parse(body) gave: data.description
\* of a null data throws
OnOtherStatus(cb, o, p) ==
    IF ~p.ok THEN CallCb(cb, FreshdeskError(JsString(NotJsonMessage), JsNull), JsUndefined, 1, 1, 51)
    ELSE IF p.v.t = "null" THEN Throw("TypeError", 1, 1, 55)
    ELSE CallCb(cb, FreshdeskError(GetProp(p.v, <<"d", "e", "s", "c", "r", "i", "p", "t", "i", "o", "n">>), p.v), JsUndefined, 1, 1, 55)

\* the function createResponseHandler(cb) returns, applied to the transport's
\* outcome o = (error, response, body)
ResponseHandler(cb, o) ==
    IF Truthy(o.error) THEN OnError(cb, o)
    ELSE IF ~o.hasResponse THEN Throw("TypeError", 0, 0, 21)
    ELSE IF o.statusCode \in {200, 201} THEN OnSuccess(cb, o, JSONparse(o.body))
    ELSE IF o.statusCode = 204 THEN OnNoContent(cb, o)
    ELSE OnOtherStatus(cb, o, JSONparse(o.body))

\* createResponseHandler(cb): a closure over cb
createResponseHandler(cb) == [cb |-> cb]

\* BoundCb, were cb kept in one variable shared by all handlers: every
\* handler would call the callback of the latest call
BoundCbLatest(handler) == IF handler.cb.t = "function" THEN JsFunction(issued) ELSE handler.cb

\* the cb a handler calls: the one its closure holds
BoundCb(handler) == handler.cb

\* RequestOptions, were the Authorization header left out
RequestOptionsNoAuth(method, auth, url, qs, data) ==
    [ method |-> method,
      headers |-> [ContentType |-> "application/json", Authorization |-> ""],
      url |-> url,
      qs |-> qs,
      bodySet |-> Truthy(data),
      body |-> IF Truthy(data) THEN JSONstringify(data) ELSE JsUndefined ]

\* the options object makeRequest builds
RequestOptions(method, auth, url, qs, data) ==
    [ method |-> method,
      headers |-> [ContentType |-> "application/json", Authorization |-> auth],
      url |-> url,
      qs |-> qs,
      bodySet |-> Truthy(data),
      body |-> IF Truthy(data) THEN JSONstringify(data) ELSE JsUndefined ]

\* makeRequest(method, auth, url, qs, data, cb), serving the facade call `call`:
\* request(options, createResponseHandler(cb))
makeRequest(call, method, auth, url, qs, data, cb) ==
    /\ issued' = issued + 1
    /\ invoked' = Append(invoked, [call EXCEPT !.data = data])
    /\ pending' = Append(pending, [options |-> RequestOptions(method, auth, url, qs, data),
                                   handler |-> createResponseHandler(cb)])
    /\ finished' = Append(finished, NotFinished)
    /\ delivered' = Append(delivered, <<>>)
    /\ UNCHANGED <<apiKey, baseUrl, _auth, alive>>

\* the caller may make another call
CanCall == alive /\ issued < MaxCalls

\* the callback the caller passes to its next facade call
NewCb == JsFunction(issued + 1)

\* `${id}` for a number
RECURSIVE NatString(_)
NatString(n) == IF n < 10 THEN DigitChars[n + 1] ELSE NatString(n \div 10) \o DigitChars[(n % 10) + 1]

(***************************************************************************)
(* Freshdesk.prototype: one action per facade method.  env gives the sets  *)
(* the caller's arguments are drawn from.                                  *)
(***************************************************************************)
listAllTickets(env) ==
    /\ CanCall
    /\ \E params \in env.filters :
           makeRequest(FacadeCall("listAllTickets", 0, params, 2),
                       "GET", _auth, baseUrl \o "/api/v2/tickets", params, JsNull, NewCb)

listAllTicketFields(env) ==
    /\ CanCall
    /\ makeRequest(FacadeCall("listAllTicketFields", 0, JsUndefined, 1),
                   "GET", _auth, baseUrl \o "/api/v2/ticket_fields", JsNull, JsNull, NewCb)

createTicket(env) ==
    /\ CanCall
    /\ \E data \in env.payloads :
           makeRequest(FacadeCall("createTicket", 0, data, 2),
                       "POST", _auth, baseUrl \o "/api/v2/tickets", JsNull, data, NewCb)

getTicket(env) ==
    /\ CanCall
    /\ \E id \in env.ids :
           makeRequest(FacadeCall("getTicket", id, JsUndefined, 2),
                       "GET", _auth, baseUrl \o "/api/v2/tickets/" \o NatString(id), JsNull, JsNull, NewCb)

updateTicket(env) ==
    /\ CanCall
    /\ \E id \in env.ids, data \in env.payloads :
           makeRequest(FacadeCall("updateTicket", id, data, 3),
                       "PUT", _auth, baseUrl \o "/api/v2/tickets/" \o NatString(id), JsNull, data, NewCb)

deleteTicket(env) ==
    /\ CanCall
    /\ \E id \in env.ids :
           makeRequest(FacadeCall("deleteTicket", id, JsUndefined, 2),
                       "DELETE", _auth, baseUrl \o "/api/v2/tickets/" \o NatString(id), JsNull, JsNull, NewCb)

restoreTicket(env) ==
    /\ CanCall
    /\ \E id \in env.ids :
           makeRequest(FacadeCall("restoreTicket", id, JsUndefined, 2),
                       "PUT", _auth, baseUrl \o "/api/v2/tickets/" \o NatString(id) \o "/restore",
                       JsNull, JsNull, NewCb)

\* makeRequest is called with five arguments: cb takes the place of data, and
\* makeRequest's own cb is undefined
listAllConversations(env) ==
    /\ CanCall
    /\ \E id \in env.ids :
           makeRequest(FacadeCall("listAllConversations", id, JsUndefined, 2),
                       "GET", _auth, baseUrl \o "/api/v2/tickets/" \o NatString(id) \o "/conversations",
                       JsNull, NewCb, JsUndefined)

listAllTimeEntries(env) ==
    /\ CanCall
    /\ \E id \in env.ids :
           makeRequest(FacadeCall("listAllTimeEntries", id, JsUndefined, 2),
                       "GET", _auth, baseUrl \o "/api/v2/tickets/" \o NatString(id) \o "/time_entries",
                       JsNull, JsNull, NewCb)

createReply(env) ==
    /\ CanCall
    /\ \E id \in env.ids, data \in env.payloads :
           makeRequest(FacadeCall("createReply", id, data, 3),
                       "POST", _auth, baseUrl \o "/api/v2/tickets/" \o NatString(id) \o "/reply",
                       JsNull, data, NewCb)

createNote(env) ==
    /\ CanCall
    /\ \E id \in env.ids, data \in env.payloads :
           makeRequest(FacadeCall("createNote", id, data, 3),
                       "POST", _auth, baseUrl \o "/api/v2/tickets/" \o NatString(id) \o "/notes",
                       JsNull, data, NewCb)

updateConversation(env) ==
    /\ CanCall
    /\ \E id \in env.ids, data \in env.payloads :
           makeRequest(FacadeCall("updateConversation", id, data, 3),
                       "PUT", _auth, baseUrl \o "/api/v2/conversations/" \o NatString(id),
                       JsNull, data, NewCb)

deleteConversation(env) ==
    /\ CanCall
    /\ \E id \in env.ids :
           makeRequest(FacadeCall("deleteConversation", id, JsUndefined, 2),
                       "DELETE", _auth, baseUrl \o "/api/v2/conversations/" \o NatString(id),
                       JsNull, JsNull, NewCb)

createContact(env) ==
    /\ CanCall
    /\ \E data \in env.payloads :
           makeRequest(FacadeCall("createContact", 0, data, 2),
                       "POST", _auth, baseUrl \o "/api/v2/contacts", JsNull, data, NewCb)

getContact(env) ==
    /\ CanCall
    /\ \E id \in env.ids :
           makeRequest(FacadeCall("getContact", id, JsUndefined, 2),
                       "GET", _auth, baseUrl \o "/api/v2/contacts/" \o NatString(id), JsNull, JsNull, NewCb)

listAllContacts(env) ==
    /\ CanCall
    /\ \E params \in env.filters :
           makeRequest(FacadeCall("listAllContacts", 0, params, 2),
                       "GET", _auth, baseUrl \o "/api/v2/contacts", params, JsNull, NewCb)

updateContact(env) ==
    /\ CanCall
    /\ \E id \in env.ids, data \in env.payloads :
           makeRequest(FacadeCall("updateContact", id, data, 3),
                       "PUT", _auth, baseUrl \o "/api/v2/contacts/" \o NatString(id), JsNull, data, NewCb)

deleteContact(env) ==
    /\ CanCall
    /\ \E id \in env.ids :
           makeRequest(FacadeCall("deleteContact", id, JsUndefined, 2),
                       "DELETE", _auth, baseUrl \o "/api/v2/contacts/" \o NatString(id), JsNull, JsNull, NewCb)

makeAgent(env) ==
    /\ CanCall
    /\ \E id \in env.ids :
           makeRequest(FacadeCall("makeAgent", id, JsUndefined, 2),
                       "PUT", _auth, baseUrl \o "/api/v2/contacts/" \o NatString(id) \o "/make_agent",
                       JsNull, JsNull, NewCb)

listAllContactFields(env) ==
    /\ CanCall
    /\ makeRequest(FacadeCall("listAllContactFields", 0, JsUndefined, 1),
                   "GET", _auth, baseUrl \o "/api/v2/contact_fields", JsNull, JsNull, NewCb)

createCompany(env) ==
    /\ CanCall
    /\ \E data \in env.payloads :
           makeRequest(FacadeCall("createCompany", 0, data, 2),
                       "POST", _auth, baseUrl \o "/api/v2/companies", JsNull, data, NewCb)

getCompany(env) ==
    /\ CanCall
    /\ \E id \in env.ids :
           makeRequest(FacadeCall("getCompany", id, JsUndefined, 2),
                       "GET", _auth, baseUrl \o "/api/v2/companies/" \o NatString(id), JsNull, JsNull, NewCb)

listAllCompanies(env) ==
    /\ CanCall
    /\ makeRequest(FacadeCall("listAllCompanies", 0, JsUndefined, 1),
                   "GET", _auth, baseUrl \o "/api/v2/companies", JsNull, JsNull, NewCb)

updateCompany(env) ==
    /\ CanCall
    /\ \E id \in env.ids, data \in env.payloads :
           makeRequest(FacadeCall("updateCompany", id, data, 3),
                       "PUT", _auth, baseUrl \o "/api/v2/companies/" \o NatString(id), JsNull, data, NewCb)

\* deleteCompany(id, data, cb): called as documented, deleteCompany(id, cb),
\* the callback lands in data and cb is undefined; called with three
\* arguments, the second one is ignored
deleteCompany(env) ==
    /\ CanCall
    /\ \E id \in env.ids, argc \in {2, 3} :
           makeRequest(FacadeCall("deleteCompany", id, JsUndefined, argc),
                       "DELETE", _auth, baseUrl \o "/api/v2/companies/" \o NatString(id), JsNull, JsNull,
                       IF argc = 3 THEN NewCb ELSE JsUndefined)

Facade(env) ==
    \/ listAllTickets(env)
    \/ listAllTicketFields(env)
    \/ createTicket(env)
    \/ getTicket(env)
    \/ updateTicket(env)
    \/ deleteTicket(env)
    \/ restoreTicket(env)
    \/ listAllConversations(env)
    \/ listAllTimeEntries(env)
    \/ createReply(env)
    \/ createNote(env)
    \/ updateConversation(env)
    \/ deleteConversation(env)
    \/ createContact(env)
    \/ getContact(env)
    \/ listAllContacts(env)
    \/ updateContact(env)
    \/ deleteContact(env)
    \/ makeAgent(env)
    \/ listAllContactFields(env)
    \/ createCompany(env)
    \/ getCompany(env)
    \/ listAllCompanies(env)
    \/ updateCompany(env)
    \/ deleteCompany(env)

(***************************************************************************)
(* The transport completes request i with one outcome and runs the         *)
(* handler it was given, once.  A cb the handler calls is the caller's     *)
(* callback of that identity.  An exception the handler throws reaches the *)
(* event loop uncaught: the process ends there, unless its host has        *)
(* installed a handler for uncaught exceptions.                            *)
(***************************************************************************)
Complete(i, o, cb, r) ==
    /\ finished' = [finished EXCEPT ![i] =
           [done |-> TRUE, outcome |-> o, cb |-> cb, called |-> r.called,
            thrown |-> r.thrown, parses |-> r.parses, traces |-> r.traces, exit |-> r.exit]]
    /\ delivered' = IF r.called
                    THEN [delivered EXCEPT ![cb.n] = Append(@, <<r.err, r.data>>)]
                    ELSE delivered
    /\ pending' = [pending EXCEPT ![i] = Consumed]
    /\ invoked' = [invoked EXCEPT ![i] = Returned]
    /\ alive' \in (IF r.thrown = "" THEN {TRUE} ELSE BOOLEAN)
    /\ UNCHANGED <<apiKey, baseUrl, _auth, issued>>

\* the handler of request i, run on the outcome o
RunHandler(i, o, cb) == Complete(i, o, cb, ResponseHandler(cb, o))

Respond(i, env) ==
    /\ alive
    /\ i \in 1..issued
    /\ ~finished[i].done
    /\ \E o \in env.outcomes : RunHandler(i, o, BoundCb(pending[i].handler))

\* several calls in flight on one client, completing in any order
Next ==
    \/ Facade(Narrow)
    \/ \E i \in 1..MaxCalls : Respond(i, Narrow)

Spec == Init /\ [][Next]_vars

\* one call at a time, over the wide sets of arguments and outcomes
FirstCall == issued = 0 /\ Facade(Wide)

NextOneCall ==
    \/ FirstCall
    \/ Respond(1, Wide)

SpecOneCall == Init /\ [][NextOneCall]_vars

(***************************************************************************)
(* Properties.                                                             *)
(***************************************************************************)
Calls == 1..issued

InFlight(i) == ~finished[i].done

\* call i is over and its handler held a function as cb
Handled(i) == finished[i].done /\ finished[i].cb.t = "function"

\* the transport answered call i with a status and a body
Answered(i) == ~Truthy(finished[i].outcome.error) /\ finished[i].outcome.hasResponse

\* what the callback of call i was called with
Received(i) == delivered[i]

\* The bodies that are JSON texts, each with the value it denotes, and the
\* bodies that are not.
JsonBodies ==
    { <<"n", "u", "l", "l">>, <<"0">>, <<"4", "2">>, <<"\"", "o", "k", "\"">>, <<"[", "]">>, <<"{", "}">>, <<" ", "{", "\"", "i", "d", "\"", ":", " ", "4", "2", "}", " ">>,
      <<"{", "\"", "d", "e", "s", "c", "r", "i", "p", "t", "i", "o", "n", "\"", ":", "\"", "\"", "}">>, <<"{", "\"", "d", "e", "s", "c", "r", "i", "p", "t", "i", "o", "n", "\"", ":", "n", "u", "l", "l", "}">>, <<"{", "\"", "i", "d", "\"", ":", "4", "2", ",", "\"", "d", "e", "s", "c", "r", "i", "p", "t", "i", "o", "n", "\"", ":", "\"", "g", "o", "n", "e", "\"", "}">>,
      <<"{", "\"", "d", "e", "s", "c", "r", "i", "p", "t", "i", "o", "n", "\"", ":", "\"", "N", "a", "m", "e", " ", "h", "a", "s", " ", "a", "l", "r", "e", "a", "d", "y", " ", "b", "e", "e", "n", " ", "t", "a", "k", "e", "n", "\"", "}">> }

NotJsonBodies == { <<>>, <<"n", "o", "t", " ", "j", "s", "o", "n">>, <<"{">> }

JsonValue(body) ==
    CASE body = <<"n", "u", "l", "l">> -> JsNull
      [] body = <<"0">> -> JsNumber(0)
      [] body = <<"4", "2">> -> JsNumber(42)
      [] body = <<"\"", "o", "k", "\"">> -> JsString(<<"o", "k">>)
      [] body = <<"[", "]">> -> JsVal("array", 0, <<>>, <<>>)
      [] body = <<"{", "}">> -> JsVal("object", 0, <<>>, <<>>)
      [] body = <<" ", "{", "\"", "i", "d", "\"", ":", " ", "4", "2", "}", " ">> -> JsObject(<<Prop(<<"i", "d">>, JsNumber(42))>>)
      [] body = <<"{", "\"", "d", "e", "s", "c", "r", "i", "p", "t", "i", "o", "n", "\"", ":", "\"", "\"", "}">> -> JsObject(<<Prop(<<"d", "e", "s", "c", "r", "i", "p", "t", "i", "o", "n">>, JsString(<<>>))>>)
      [] body = <<"{", "\"", "d", "e", "s", "c", "r", "i", "p", "t", "i", "o", "n", "\"", ":", "n", "u", "l", "l", "}">> -> JsObject(<<Prop(<<"d", "e", "s", "c", "r", "i", "p", "t", "i", "o", "n">>, JsNull)>>)
      [] body = <<"{", "\"", "i", "d", "\"", ":", "4", "2", ",", "\"", "d", "e", "s", "c", "r", "i", "p", "t", "i", "o", "n", "\"", ":", "\"", "g", "o", "n", "e", "\"", "}">> ->
             JsObject(<<Prop(<<"i", "d">>, JsNumber(42)), Prop(<<"d", "e", "s", "c", "r", "i", "p", "t", "i", "o", "n">>, JsString(<<"g", "o", "n", "e">>))>>)
      [] body = <<"{", "\"", "d", "e", "s", "c", "r", "i", "p", "t", "i", "o", "n", "\"", ":", "\"", "N", "a", "m", "e", " ", "h", "a", "s", " ", "a", "l", "r", "e", "a", "d", "y", " ", "b", "e", "e", "n", " ", "t", "a", "k", "e", "n", "\"", "}">> ->
             JsObject(<<Prop(<<"d", "e", "s", "c", "r", "i", "p", "t", "i", "o", "n">>, JsString(<<"N", "a", "m", "e", " ", "h", "a", "s", " ", "a", "l", "r", "e", "a", "d", "y", " ", "b", "e", "e", "n", " ", "t", "a", "k", "e", "n">>))>>)

\* an API Error with the given message and payload
ApiError(message, data) ==
    JsVal("FreshdeskError", 0, <<>>,
          << Prop(<<"n", "a", "m", "e">>, JsString(<<"F", "r", "e", "s", "h", "d", "e", "s", "k", "E", "r", "r", "o", "r">>)),
             Prop(<<"m", "e", "s", "s", "a", "g", "e">>, message),
             Prop(<<"d", "a", "t", "a">>, data) >>)

NotJsonError == ApiError(JsString(<<"N", "o", "t", " ", "a", " ", "J", "S", "O", "N", " ", "r", "e", "s", "p", "o", "n", "s", "e", " ", "f", "r", "o", "m", " ", "A", "P", "I">>), JsNull)

\* C1: every facade call that is over had its callback invoked exactly once,
\* with (null, data) or (errorObject, undefined); no callback is ever invoked
\* more than once.
C1_CallbackExactlyOnce ==
    \A i \in Calls :
        /\ Len(Received(i)) <= 1
        /\ finished[i].done =>
              /\ Len(Received(i)) = 1
              /\ \/ Received(i)[1][1] = JsNull
                 \/ Truthy(Received(i)[1][1]) /\ Received(i)[1][2] = JsUndefined

\* C2: no transport error, status 200 or 201 and a body that is a JSON text:
\* the handler calls its callback once, with error null and the value the
\* body denotes.
C2_SuccessDeliversParsedBody ==
    /\ Bodies = JsonBodies \cup NotJsonBodies
    /\ \A i \in Calls :
          ( /\ Handled(i)
            /\ Answered(i)
            /\ finished[i].outcome.statusCode \in {200, 201}
            /\ finished[i].outcome.body \in JsonBodies )
          => /\ Received(i) = << <<JsNull, JsonValue(finished[i].outcome.body)>> >>
             /\ finished[i].thrown = ""

C2_Witness ==
    \E i \in Calls :
        /\ Handled(i)
        /\ finished[i].outcome.statusCode = 201
        /\ finished[i].outcome.body = <<"n", "u", "l", "l">>
        /\ Received(i) = << <<JsNull, JsNull>> >>

\* C3: no transport error, a status other than 200, 201 and 204 and a body
\* that is a JSON text: the callback receives an API Error whose message is
\* the description field of the parsed body and whose payload is the parsed
\* body, whatever the body denotes (no description, an empty one, null).
C3_ErrorCarriesDescription ==
    \A i \in Calls :
        ( /\ Handled(i)
          /\ Answered(i)
          /\ finished[i].outcome.statusCode \notin {200, 201, 204}
          /\ finished[i].outcome.body \in JsonBodies )
        => Received(i) =
               << << ApiError(GetProp(JsonValue(finished[i].outcome.body), <<"d", "e", "s", "c", "r", "i", "p", "t", "i", "o", "n">>),
                              JsonValue(finished[i].outcome.body)),
                     JsUndefined >> >>

C5_NoContentIsNull ==
    \A i \in Calls :
        (Handled(i) /\ Answered(i) /\ finished[i].outcome.statusCode = 204)
        => /\ Received(i) = << <<JsNull, JsNull>> >>
           /\ finished[i].parses = 0
           /\ finished[i].thrown = ""

C5_Witness ==
    \E i \in Calls :
        /\ Handled(i)
        /\ finished[i].outcome.statusCode = 204
        /\ finished[i].outcome.body = <<"n", "o", "t", " ", "j", "s", "o", "n">>
        /\ Received(i) = << <<JsNull, JsNull>> >>
        /\ finished[i].parses = 0

\* C6: a transport error without a response: the callback receives that very
\* error object, and no data, and JSON.parse is not run.
C6_TransportErrorDelivered ==
    \A i \in Calls :
        ( /\ Handled(i)
          /\ Truthy(finished[i].outcome.error)
          /\ ~finished[i].outcome.hasResponse )
        => /\ Received(i) = << <<finished[i].outcome.error, JsUndefined>> >>
           /\ finished[i].parses = 0

\* The operation table: method, path before the id, whether the path holds
\* an id, path after the id, and what else the operation takes.
Row(method, path, hasId, suffix, extra) ==
    [method |-> method, path |-> path, hasId |-> hasId, suffix |-> suffix, extra |-> extra]

OperationTable(op) ==
    CASE op = "listAllTickets" -> Row("GET", "/api/v2/tickets", FALSE, "", "query")
      [] op = "listAllTicketFields" -> Row("GET", "/api/v2/ticket_fields", FALSE, "", "none")
      [] op = "createTicket" -> Row("POST", "/api/v2/tickets", FALSE, "", "body")
      [] op = "getTicket" -> Row("GET", "/api/v2/tickets/", TRUE, "", "none")
      [] op = "updateTicket" -> Row("PUT", "/api/v2/tickets/", TRUE, "", "body")
      [] op = "deleteTicket" -> Row("DELETE", "/api/v2/tickets/", TRUE, "", "none")
      [] op = "restoreTicket" -> Row("PUT", "/api/v2/tickets/", TRUE, "/restore", "none")
      [] op = "listAllConversations" -> Row("GET", "/api/v2/tickets/", TRUE, "/conversations", "none")
      [] op = "listAllTimeEntries" -> Row("GET", "/api/v2/tickets/", TRUE, "/time_entries", "none")
      [] op = "createReply" -> Row("POST", "/api/v2/tickets/", TRUE, "/reply", "body")
      [] op = "createNote" -> Row("POST", "/api/v2/tickets/", TRUE, "/notes", "body")
      [] op = "updateConversation" -> Row("PUT", "/api/v2/conversations/", TRUE, "", "body")
      [] op = "deleteConversation" -> Row("DELETE", "/api/v2/conversations/", TRUE, "", "none")
      [] op = "createContact" -> Row("POST", "/api/v2/contacts", FALSE, "", "body")
      [] op = "getContact" -> Row("GET", "/api/v2/contacts/", TRUE, "", "none")
      [] op = "listAllContacts" -> Row("GET", "/api/v2/contacts", FALSE, "", "query")
      [] op = "updateContact" -> Row("PUT", "/api/v2/contacts/", TRUE, "", "body")
      [] op = "deleteContact" -> Row("DELETE", "/api/v2/contacts/", TRUE, "", "none")
      [] op = "makeAgent" -> Row("PUT", "/api/v2/contacts/", TRUE, "/make_agent", "none")
      [] op = "listAllContactFields" -> Row("GET", "/api/v2/contact_fields", FALSE, "", "none")
      [] op = "createCompany" -> Row("POST", "/api/v2/companies", FALSE, "", "body")
      [] op = "getCompany" -> Row("GET", "/api/v2/companies/", TRUE, "", "none")
      [] op = "listAllCompanies" -> Row("GET", "/api/v2/companies", FALSE, "", "none")
      [] op = "updateCompany" -> Row("PUT", "/api/v2/companies/", TRUE, "", "body")
      [] op = "deleteCompany" -> Row("DELETE", "/api/v2/companies/", TRUE, "", "none")

IdText(id) == IF id = 42 THEN "42" ELSE IF id = 7 THEN "7" ELSE NatString(id)

\* the request the table prescribes for a facade call, and the handler
\* around the caller's callback
TableRequest(call, row) ==
    [ method |-> row.method,
      url |-> baseUrl \o row.path \o (IF row.hasId THEN IdText(call.id) \o row.suffix ELSE ""),
      qs |-> IF row.extra = "query" THEN call.arg ELSE JsNull,
      body |-> IF row.extra = "body" /\ call.arg.t \notin {"null", "undefined"}
               THEN JSONstringify(call.arg) ELSE JsUndefined ]

SentRequest(options) ==
    [method |-> options.method, url |-> options.url, qs |-> options.qs, body |-> options.body]

\* C7: the request a facade call hands to the transport has the method and the
\* URL of the operation table, the caller's filter as query only where the
\* table says so, the caller's payload as body only where the table says so,
\* and a completion handler around the caller's callback.
C7_RequestFollowsTable ==
    \A i \in Calls :
        InFlight(i) =>
            /\ SentRequest(pending[i].options) = TableRequest(invoked[i], OperationTable(invoked[i].op))
            /\ pending[i].handler.cb = JsFunction(i)
            /\ (invoked[i].op = "getTicket" /\ invoked[i].id = 42) =>
                   /\ pending[i].options.method = "GET"
                   /\ pending[i].options.url = baseUrl \o "/api/v2/tickets/42"
                   /\ pending[i].options.body = JsUndefined

\* C8: the credential stays "Basic " + base64(apiKey + ":X"), and every
\* request in the transport's hands carries it as its Authorization header.
C8_CredentialStable ==
    /\ _auth = "Basic " \o Base64(apiKey \o <<58, 88>>)
    /\ apiKey = <<107>> => _auth = "Basic azpY"
    /\ apiKey = <<107, 49>> => _auth = "Basic azE6WA=="
    /\ apiKey = <<97, 98, 99>> => _auth = "Basic YWJjOlg="
    /\ \A i \in Calls : InFlight(i) => pending[i].options.headers.Authorization = _auth

C8_Witness ==
    /\ issued >= 2
    /\ finished[1].done
    /\ InFlight(2)
    /\ apiKey = <<97, 98, 99>>
    /\ pending[2].options.headers.Authorization = "Basic YWJjOlg="

\* what the callback of call i must have received so far: the result its own
\* handler classifies from its own outcome, once, if that handler ran and
\* reached its callback; nothing otherwise
OwnResult(i) ==
    IF finished[i].done /\ finished[i].called
    THEN << << ResponseHandler(JsFunction(i), finished[i].outcome).err,
               ResponseHandler(JsFunction(i), finished[i].outcome).data >> >>
    ELSE <<>>

\* C9: with several calls in flight completing in any order, a callback only
\* ever receives the result of its own call's outcome; a step leaves the
\* request and the callback of every call that stays in flight untouched, and
\* leaves the instance as constructed.
C9_CallsIsolated ==
    [][ /\ \A i \in 1..issued' : Received(i)' = OwnResult(i)'
        /\ \A i \in Calls : (InFlight(i) /\ InFlight(i)') =>
               /\ pending'[i] = pending[i]
               /\ delivered'[i] = delivered[i]
        /\ _auth' = _auth
        /\ baseUrl' = baseUrl ]_vars

C9_Witness ==
    /\ issued = 2
    /\ InFlight(1)
    /\ pending[1].handler.cb = JsFunction(1)
    /\ Received(1) = <<>>
    /\ finished[2].done
    /\ Received(2) = << <<JsNull, JsObject(<<Prop(<<"i", "d">>, JsNumber(42))>>)>> >>

\* C10 as stated: a body is attached exactly when data is neither null nor
\* undefined, and it is the JSON serialization of data; both headers are set.
C10_BodyWhenPresent ==
    \A i \in Calls :
        InFlight(i) =>
            /\ pending[i].options.headers.ContentType = "application/json"
            /\ pending[i].options.headers.Authorization = _auth
            /\ IF invoked[i].data.t \in {"null", "undefined"}
               THEN ~pending[i].options.bodySet /\ pending[i].options.body = JsUndefined
               ELSE pending[i].options.body = JSONstringify(invoked[i].data)

\* What makeRequest does where C10 fails: a body is attached exactly when data
\* is truthy, and it is JSON.stringify(data); for a falsy data (null, undefined, 0, false, "") the
\* request has no body; both headers are set in every case.
C10_BodyWhenTruthy ==
    \A i \in Calls :
        InFlight(i) =>
            /\ pending[i].options.headers.ContentType = "application/json"
            /\ pending[i].options.headers.Authorization = _auth
            /\ IF Truthy(invoked[i].data)
               THEN pending[i].options.bodySet /\ pending[i].options.body = JSONstringify(invoked[i].data)
               ELSE ~pending[i].options.bodySet /\ pending[i].options.body = JsUndefined
            /\ invoked[i].data = AcmeData => pending[i].options.body = JsString(<<"{", "\"", "n", "a", "m", "e", "\"", ":", "\"", "A", "c", "m", "e", "\"", "}">>)
            /\ invoked[i].data = JsNumber(5) => pending[i].options.body = JsString(<<"5">>)
            /\ invoked[i].data = JsString(<<"h", "i">>) => pending[i].options.body = JsString(<<"\"", "h", "i", "\"">>)
            /\ invoked[i].data = JsObject(<<>>) => pending[i].options.body = JsString(<<"{", "}">>)

====
